---- MODULE Spec2Model ----
(***************************************************************************)
(* A model of scripts/apply_plan_changes.py: the change-set loader, the    *)
(* header-cell builder, the document patcher and the orchestrator (main).  *)
(*                                                                         *)
(* A target document is represented by the tree html.parser builds from    *)
(* its text: an optional <thead> holding a sequence of rows, an optional   *)
(* <tbody> holding a sequence of rows, each row a sequence of cells.  A    *)
(* cell keeps its tag (th / td), whether it carries a colspan attribute,   *)
(* and the content the script generates for it.  Documents follow the      *)
(* TargetDocument shape of the data model: at most one table head and at   *)
(* most one table body, rows holding cells only (no nested table).         *)
(*                                                                         *)
(* Strings the script computes with (plan names, str(monthly)) are         *)
(* sequences of character codes; labels the script only prints or stores   *)
(* are TLA+ strings.                                                       *)
(***************************************************************************)
EXTENDS Integers, Sequences, FiniteSets, TLC

VARIABLES
  changes,    \* the change-set file named on the command line
  doc,        \* doc[t]: the file of target t (its parse tree), or a missing file
  pc,         \* position of the process: "main", "loop", "after_loop", "done", "exited", "patch"
  plans,      \* main's local `plans`
  pi,         \* index of the outer loop (for plan in plans)
  ti,         \* index of the inner loop (for target in TARGETS)
  seed,       \* the per-process salt of the built-in str hash
  run,        \* how many processes have been started so far
  exitCode,   \* exit status of the current process, -1 while it runs
  log,        \* lines printed by the current process
  calls,      \* <<plan index, target>> pairs append_plan_to_file was invoked on in this run
  ids,        \* every (name, monthly, id) make_header_th has produced, over all runs
  writes,     \* writes[t]: how many times write_text ran on target t
  doc0,       \* the documents before the first run
  docStart,   \* the documents when the current process started
  last        \* the most recent invocation of append_plan_to_file

vars == <<changes, doc, pc, plans, pi, ti, seed, run, exitCode, log, calls, ids,
          writes, doc0, docStart, last>>

-----------------------------------------------------------------------------
(* Bounds of the model *)

MaxPlans == 2     \* plans in a change-set
MaxRuns  == 2     \* processes started one after the other
MaxRows  == 2     \* body rows of an enumerated document
MaxCells == 2     \* cells of an enumerated row
MaxApply == 2     \* direct invocations of the patcher on one document

-----------------------------------------------------------------------------
(* Program constants *)

NumTargets == 3
Targets == 1..NumTargets

\* 'New Plan', the default name of line 115
NewPlanName == <<78, 101, 119, 32, 80, 108, 97, 110>>
VIP == <<86, 73, 80>>

\* the range the hash is reduced into: % (10**9)
IdRange == 10^9

\* The built-in hash is a keyed 64-bit hash; the model keeps its shape (a value
\* that depends on every character and on the process salt, signed) in 20 bits.
HashMod == 2^20
HashSeeds == {0, 1}

-----------------------------------------------------------------------------
(* Pure helpers *)

RECURSIVE str(_)
\* str(monthly) for a non-negative integer: its decimal digits
str(n) == IF n < 10 THEN <<48 + n>> ELSE Append(str(n \div 10), 48 + (n % 10))

RECURSIVE group(_)
\* the ',' format of an integer's digits: a comma before every group of three
group(ds) ==
  IF Len(ds) <= 3 THEN ds
  ELSE group(SubSeq(ds, 1, Len(ds) - 3)) \o <<44>> \o SubSeq(ds, Len(ds) - 2, Len(ds))

\* the three characters the f-string of line 52 starts with
CurrencyPrefix == <<226, 8218, 185>>

RECURSIVE HashFrom(_, _)
HashFrom(h, s) ==
  IF s = <<>> THEN h ELSE HashFrom((h * 31 + Head(s) + 1) % HashMod, Tail(s))

\* hash(s) of a str in a process whose salt is sd: a signed value
hash(s, sd) ==
  LET u == HashFrom((sd * 7919) % HashMod, s)
  IN IF u >= HashMod \div 2 THEN u - HashMod ELSE u

abs(x) == IF x < 0 THEN -x ELSE x

\* the number after "price" in the id of the price span
id_stamp(name, monthly, sd) == abs(hash(name \o str(monthly), sd)) % IdRange

-----------------------------------------------------------------------------
(* Cells, rows, documents *)

OrigCell(tag, colspan) ==
  [tag |-> tag, colspan |-> colspan, class |-> "orig", string |-> "x",
   h3 |-> <<>>, id |-> -1, data_monthly |-> <<>>, price |-> <<>>]

make_header_th(name, monthly, sd) ==
  [tag |-> "th", colspan |-> FALSE, class |-> "p-6 md:p-8 w-1/4 align-bottom",
   string |-> "", h3 |-> name, id |-> id_stamp(name, monthly, sd),
   data_monthly |-> str(monthly), price |-> CurrencyPrefix \o group(str(monthly))]

FillerTd ==
  [tag |-> "td", colspan |-> FALSE, class |-> "px-6 py-3", string |-> "",
   h3 |-> <<>>, id |-> -1, data_monthly |-> <<>>, price |-> <<>>]

PlaceholderTd ==
  [tag |-> "td", colspan |-> FALSE, class |-> "px-6 py-4 text-center", string |-> "-",
   h3 |-> <<>>, id |-> -1, data_monthly |-> <<>>, price |-> <<>>]

MissingDoc ==
  [exists |-> FALSE, has_thead |-> FALSE, thead |-> <<>>, has_tbody |-> FALSE, tbody |-> <<>>]

Document(has_thead, thead, has_tbody, tbody) ==
  [exists |-> TRUE, has_thead |-> has_thead, thead |-> thead,
   has_tbody |-> has_tbody, tbody |-> tbody]

\* tr.find('td'): the index of the first td of a row, 0 when it has none
RECURSIVE FindTd(_, _)
FindTd(row, i) ==
  IF i > Len(row) THEN 0
  ELSE IF row[i].tag = "td" THEN i ELSE FindTd(row, i + 1)

IsSectionHeader(row) ==
  LET first_td == FindTd(row, 1)
  IN first_td # 0 /\ row[first_td].colspan

\* a row that receives no cell when it is a section header
patch_row_skip_section(row) ==
  IF IsSectionHeader(row) THEN row ELSE Append(row, PlaceholderTd)

\* a row that receives the placeholder whatever its kind
patch_row_placeholder(row) == Append(row, PlaceholderTd)

\* lines 91-101: the cell one body row receives
patch_row(row) ==
  IF IsSectionHeader(row) THEN Append(row, FillerTd) ELSE Append(row, PlaceholderTd)

\* the new header cell put in front of the head row
thead_row_prepend(thead_row, new_th) == <<new_th>> \o thead_row

\* line 82: thead_row.append(new_th)
thead_row_append(thead_row, new_th) == Append(thead_row, new_th)

HasHeadRow(d) == d.has_thead /\ d.thead # <<>>

\* lines 81-82 on the first row of the table head
patch_head(d, new_th) ==
  [d EXCEPT !.thead = [d.thead EXCEPT ![1] = thead_row_append(@, new_th)]]

\* lines 89-101: for tr in tbody.find_all('tr')
patch_body(d) ==
  [d EXCEPT !.tbody = [i \in 1..Len(d.tbody) |-> patch_row(d.tbody[i])]]

Msg(m, t) == [msg |-> m, target |-> t]

Outcome(d, wrote, made, lines) ==
  [doc |-> d, wrote |-> wrote, made |-> made, log |-> lines]

\* a patcher that patches the body rows of a document without a head row
append_plan_to_file_headless(d, t, plan_name, monthly, sd) ==
  LET new_th == make_header_th(plan_name, monthly, sd)
  IN IF ~HasHeadRow(d) THEN
       IF d.has_tbody
       THEN Outcome(patch_body(d), TRUE, FALSE,
                    <<Msg("Applying", t), Msg("Warning: no <thead>", t), Msg("Updated", t)>>)
       ELSE Outcome(d, FALSE, FALSE,
                    <<Msg("Applying", t), Msg("Warning: no <thead>", t)>>)
     ELSE IF ~d.has_tbody THEN
       Outcome(patch_head(d, new_th), TRUE, TRUE,
               <<Msg("Applying", t), Msg("Warning: no <tbody>", t), Msg("Updated", t)>>)
     ELSE
       Outcome(patch_body(patch_head(d, new_th)), TRUE, TRUE,
               <<Msg("Applying", t), Msg("Updated", t)>>)

\* a patcher that leaves a document without a table body as it is
append_plan_to_file_all_or_nothing(d, t, plan_name, monthly, sd) ==
  LET new_th == make_header_th(plan_name, monthly, sd)
  IN IF ~d.has_thead THEN
       Outcome(d, FALSE, FALSE, <<Msg("Applying", t), Msg("Warning: no <thead>", t)>>)
     ELSE IF d.thead = <<>> THEN
       Outcome(d, FALSE, FALSE, <<Msg("Applying", t), Msg("Warning: no header row", t)>>)
     ELSE IF ~d.has_tbody THEN
       Outcome(d, FALSE, FALSE, <<Msg("Applying", t), Msg("Warning: no <tbody>", t)>>)
     ELSE
       Outcome(patch_body(patch_head(d, new_th)), TRUE, TRUE,
               <<Msg("Applying", t), Msg("Updated", t)>>)

\* a patcher that skips a plan whose name the head row already shows
append_plan_to_file_once(d, t, plan_name, monthly, sd) ==
  LET new_th == make_header_th(plan_name, monthly, sd)
  IN IF ~d.has_thead THEN
       Outcome(d, FALSE, FALSE, <<Msg("Applying", t), Msg("Warning: no <thead>", t)>>)
     ELSE IF d.thead = <<>> THEN
       Outcome(d, FALSE, FALSE, <<Msg("Applying", t), Msg("Warning: no header row", t)>>)
     ELSE IF \E i \in 1..Len(d.thead[1]) : d.thead[1][i].h3 = plan_name THEN
       Outcome(d, FALSE, FALSE, <<Msg("Applying", t)>>)
     ELSE IF ~d.has_tbody THEN
       Outcome(patch_head(d, new_th), TRUE, TRUE,
               <<Msg("Applying", t), Msg("Warning: no <tbody>", t), Msg("Updated", t)>>)
     ELSE
       Outcome(patch_body(patch_head(d, new_th)), TRUE, TRUE,
               <<Msg("Applying", t), Msg("Updated", t)>>)

\* append_plan_to_file on the file d of target t: the file afterwards, whether
\* write_text ran, whether make_header_th ran, and the lines printed
append_plan_to_file(d, t, plan_name, monthly, sd) ==
  LET new_th == make_header_th(plan_name, monthly, sd)
  IN IF ~d.has_thead THEN
       Outcome(d, FALSE, FALSE, <<Msg("Applying", t), Msg("Warning: no <thead>", t)>>)
     ELSE IF d.thead = <<>> THEN
       Outcome(d, FALSE, FALSE, <<Msg("Applying", t), Msg("Warning: no header row", t)>>)
     ELSE IF ~d.has_tbody THEN
       Outcome(patch_head(d, new_th), TRUE, TRUE,
               <<Msg("Applying", t), Msg("Warning: no <tbody>", t), Msg("Updated", t)>>)
     ELSE
       Outcome(patch_body(patch_head(d, new_th)), TRUE, TRUE,
               <<Msg("Applying", t), Msg("Updated", t)>>)

NoCall == [called |-> FALSE, target |-> 0, before |-> MissingDoc, name |-> <<>>,
           monthly |-> 0, wrote |-> FALSE, writes_before |-> 0]

-----------------------------------------------------------------------------
(* The change-set file *)

RawPlan(has_name, name, has_monthly, monthly, has_monthly_price, monthly_price) ==
  [has_name |-> has_name, name |-> name, has_monthly |-> has_monthly,
   monthly |-> monthly, has_monthly_price |-> has_monthly_price,
   monthly_price |-> monthly_price]

\* {"name": "VIP", "monthly": 15999}
PlanVIP == RawPlan(TRUE, VIP, TRUE, 15999, FALSE, 0)
\* {"monthly": 0, "monthly_price": 1999}
PlanUnnamed == RawPlan(FALSE, <<>>, TRUE, 0, TRUE, 1999)

PlanChoices == {PlanVIP, PlanUnnamed}

ChangeFile(exists, wellformed, has_plans, ps) ==
  [exists |-> exists, wellformed |-> wellformed, has_plans |-> has_plans, plans |-> ps]

ChangeFiles ==
  {ChangeFile(FALSE, FALSE, FALSE, <<>>),      \* no such file
   ChangeFile(TRUE, FALSE, FALSE, <<>>),       \* not JSON
   ChangeFile(TRUE, TRUE, FALSE, <<>>)}        \* a JSON object without "plans"
  \cup {ChangeFile(TRUE, TRUE, TRUE, ps) :
          ps \in UNION {[1..n -> PlanChoices] : n \in 0..MaxPlans}}

\* a loader that takes a missing file for an empty change-set
load_changes_lenient(file) ==
  IF ~file.exists THEN [exit |-> -1, plans |-> <<>>, log |-> <<>>]
  ELSE IF ~file.wellformed THEN [exit |-> 1, plans |-> <<>>, log |-> <<>>]
  ELSE [exit |-> -1, plans |-> IF file.has_plans THEN file.plans ELSE <<>>, log |-> <<>>]

\* load_changes: the exit status when the process ends in it (-1 when it
\* returns), the list returned, and the line printed
load_changes(file) ==
  IF ~file.exists THEN
    [exit |-> 1, plans |-> <<>>, log |-> <<Msg("Error: not found", 0)>>]
  ELSE IF ~file.wellformed THEN
    \* json.loads raises; nothing catches it, the interpreter ends with status 1
    [exit |-> 1, plans |-> <<>>, log |-> <<>>]
  ELSE
    [exit |-> -1, plans |-> IF file.has_plans THEN file.plans ELSE <<>>, log |-> <<>>]

\* plan.get('name') or 'New Plan'
plan_name(plan) ==
  IF plan.has_name /\ plan.name # <<>> THEN plan.name ELSE NewPlanName

\* int(plan.get('monthly') or plan.get('monthly_price') or 0)
plan_monthly(plan) ==
  IF plan.has_monthly /\ plan.monthly # 0 THEN plan.monthly
  ELSE IF plan.has_monthly_price /\ plan.monthly_price # 0 THEN plan.monthly_price
  ELSE 0

-----------------------------------------------------------------------------
(* Documents the runs start from *)

HeadRow(w) == [i \in 1..w |-> OrigCell("th", FALSE)]
DataRow(w) == [i \in 1..w |-> OrigCell("td", FALSE)]
SeparatorRow == <<OrigCell("td", TRUE)>>

\* a head of three columns, a normal row and a separator row
FullDoc == Document(TRUE, <<HeadRow(3)>>, TRUE, <<DataRow(3), SeparatorRow>>)
NoTheadDoc == Document(FALSE, <<>>, TRUE, <<DataRow(3)>>)
NoHeadRowDoc == Document(TRUE, <<>>, TRUE, <<DataRow(3)>>)
NoTbodyDoc == Document(TRUE, <<HeadRow(3)>>, FALSE, <<>>)

DocChoices == {MissingDoc, FullDoc, NoTheadDoc, NoHeadRowDoc, NoTbodyDoc}

RowKinds == {"data", "sep", "late_sep", "thsep", "rowhead_sep"}

EnumRow(kind, w) ==
  [i \in 1..w |->
     IF i = 1 THEN
       CASE kind \in {"data", "late_sep"} -> OrigCell("td", FALSE)
         [] kind = "sep" -> OrigCell("td", TRUE)
         [] kind = "thsep" -> OrigCell("th", TRUE)
         [] OTHER -> OrigCell("th", FALSE)
     ELSE IF i = 2 /\ kind \in {"rowhead_sep", "late_sep"} THEN OrigCell("td", TRUE)
     ELSE OrigCell("td", FALSE)]

EnumRows == {EnumRow(k, w) : k \in RowKinds, w \in 0..MaxCells}

\* the documents the patcher is tried on: with or without a table head, a
\* head row of w cells, a table body of n rows
EnumDoc(has_thead, has_row, w, has_tbody, body) ==
  Document(has_thead, IF has_thead /\ has_row THEN <<HeadRow(w)>> ELSE <<>>,
           has_tbody, IF has_tbody THEN body ELSE <<>>)

-----------------------------------------------------------------------------
(* The orchestrator *)

Init ==
  /\ changes \in ChangeFiles
  /\ doc \in [Targets -> DocChoices]
  /\ pc = "main"
  /\ plans = <<>>
  /\ pi = 1
  /\ ti = 1
  /\ seed \in HashSeeds
  /\ run = 1
  /\ exitCode = -1
  /\ log = <<>>
  /\ calls = {}
  /\ ids = {}
  /\ writes = [t \in Targets |-> 0]
  /\ doc0 = doc
  /\ docStart = doc
  /\ last = NoCall

\* lines 109-113: load the change-set, leave when there is nothing to do
MainLoad ==
  /\ pc = "main"
  /\ LET r == load_changes(changes)
     IN IF r.exit # -1 THEN
          /\ pc' = "exited"
          /\ exitCode' = r.exit
          /\ log' = log \o r.log
          /\ plans' = plans
        ELSE IF r.plans = <<>> THEN
          /\ pc' = "done"
          /\ exitCode' = 0
          /\ log' = Append(log, Msg("No plans to apply", 0))
          /\ plans' = r.plans
        ELSE
          /\ pc' = "loop"
          /\ exitCode' = exitCode
          /\ log' = log
          /\ plans' = r.plans
  /\ pi' = 1
  /\ ti' = 1
  /\ UNCHANGED <<changes, doc, seed, run, calls, ids, writes, doc0, docStart, last>>

\* loops that end after the first plan
Advance_first_plan_only ==
  IF ti < NumTargets THEN
    /\ ti' = ti + 1
    /\ UNCHANGED <<pi, pc>>
  ELSE
    /\ pc' = "after_loop"
    /\ UNCHANGED <<pi, ti>>

\* the two for loops of lines 114 and 117 move on
Advance ==
  IF ti < NumTargets THEN
    /\ ti' = ti + 1
    /\ UNCHANGED <<pi, pc>>
  ELSE IF pi < Len(plans) THEN
    /\ ti' = 1
    /\ pi' = pi + 1
    /\ UNCHANGED pc
  ELSE
    /\ pc' = "after_loop"
    /\ UNCHANGED <<pi, ti>>

\* one call of append_plan_to_file(target t, name, monthly), plan index k
Invoke(t, k, name, monthly) ==
  LET r == append_plan_to_file(doc[t], t, name, monthly, seed)
  IN /\ doc' = [doc EXCEPT ![t] = r.doc]
     /\ writes' = [writes EXCEPT ![t] = IF r.wrote THEN @ + 1 ELSE @]
     /\ log' = log \o r.log
     /\ calls' = calls \cup {<<k, t>>}
     /\ ids' = IF r.made
               THEN ids \cup {[name |-> name, monthly |-> monthly,
                               id |-> id_stamp(name, monthly, seed)]}
               ELSE ids
     /\ last' = [called |-> TRUE, target |-> t, before |-> doc[t], name |-> name,
                 monthly |-> monthly, wrote |-> r.wrote, writes_before |-> writes[t]]

\* lines 115-119: the target exists, the patcher is invoked on it
ApplyTarget ==
  /\ pc = "loop"
  /\ doc[ti].exists
  /\ Invoke(ti, pi, plan_name(plans[pi]), plan_monthly(plans[pi]))
  /\ Advance
  /\ UNCHANGED <<changes, plans, seed, run, exitCode, doc0, docStart>>

\* a missing target that ends the inner loop (break)
SkipTarget_break ==
  /\ pc = "loop"
  /\ ~doc[ti].exists
  /\ log' = Append(log, Msg("not found, skipping", ti))
  /\ IF pi < Len(plans)
     THEN ti' = 1 /\ pi' = pi + 1 /\ UNCHANGED pc
     ELSE pc' = "after_loop" /\ UNCHANGED <<pi, ti>>
  /\ UNCHANGED <<changes, doc, plans, seed, run, exitCode, calls, ids, writes,
                 doc0, docStart, last>>

\* lines 120-121: the target does not exist
SkipTarget ==
  /\ pc = "loop"
  /\ ~doc[ti].exists
  /\ log' = Append(log, Msg("not found, skipping", ti))
  /\ Advance
  /\ UNCHANGED <<changes, doc, plans, seed, run, exitCode, calls, ids, writes,
                 doc0, docStart, last>>

\* line 122, and the process ends normally
MainDone ==
  /\ pc = "after_loop"
  /\ pc' = "done"
  /\ exitCode' = 0
  /\ log' = Append(log, Msg("Done", 0))
  /\ UNCHANGED <<changes, doc, plans, pi, ti, seed, run, calls, ids, writes,
                 doc0, docStart, last>>

\* the script is started again with the same command line (lines 124-125)
Rerun ==
  /\ pc \in {"done", "exited"}
  /\ run < MaxRuns
  /\ run' = run + 1
  /\ seed' \in HashSeeds
  /\ pc' = "main"
  /\ plans' = <<>>
  /\ pi' = 1
  /\ ti' = 1
  /\ exitCode' = -1
  /\ log' = <<>>
  /\ calls' = {}
  /\ docStart' = doc
  /\ last' = NoCall
  /\ UNCHANGED <<changes, doc, ids, writes, doc0>>

Next == MainLoad \/ ApplyTarget \/ SkipTarget \/ MainDone \/ Rerun

Spec == Init /\ [][Next]_vars

-----------------------------------------------------------------------------
(* The patcher alone, on every enumerated document *)

\* the arguments of the k-th invocation
PatchPlan(k) == IF k % 2 = 1 THEN <<VIP, 15999>> ELSE <<NewPlanName, 1999>>

PatchInit ==
  /\ changes = ChangeFile(TRUE, TRUE, TRUE, <<>>)
  /\ \E has_thead \in BOOLEAN, has_row \in BOOLEAN, w \in 0..MaxCells,
        has_tbody \in BOOLEAN, n \in 0..MaxRows :
       \E body \in [1..n -> EnumRows] :
         doc = [t \in Targets |->
                  IF t = 1 THEN EnumDoc(has_thead, has_row, w, has_tbody, body)
                  ELSE MissingDoc]
  /\ pc = "patch"
  /\ plans = <<>>
  /\ pi = 1
  /\ ti = 1
  /\ seed = 0
  /\ run = 1
  /\ exitCode = -1
  /\ log = <<>>
  /\ calls = {}
  /\ ids = {}
  /\ writes = [t \in Targets |-> 0]
  /\ doc0 = doc
  /\ docStart = doc
  /\ last = NoCall

\* append_plan_to_file(path, plan_name, monthly) on an existing file
PatchCall ==
  /\ pc = "patch"
  /\ pi <= MaxApply
  /\ \E t \in Targets :
       /\ doc[t].exists
       /\ Invoke(t, pi, PatchPlan(pi)[1], PatchPlan(pi)[2])
  /\ pi' = pi + 1
  /\ UNCHANGED <<changes, pc, plans, ti, seed, run, exitCode, doc0, docStart>>

PatchNext == PatchCall

PatchSpec == PatchInit /\ [][PatchNext]_vars

-----------------------------------------------------------------------------
(* Properties *)

NPlans == IF changes.exists /\ changes.wellformed /\ changes.has_plans
          THEN Len(changes.plans) ELSE 0

HeadCells(d) == d.thead[1]

\* the head row and every body row of d hold the same number of cells
Uniform(d) ==
  /\ HasHeadRow(d)
  /\ \A i \in 1..Len(d.tbody) : Len(d.tbody[i]) = Len(HeadCells(d))

After == doc[last.target]

\* C1: an application of one plan by the patcher keeps the cell count of the
\* head row and of every body row equal when they were equal before; where it
\* finds the head row, it appends exactly one cell to the head row and exactly
\* one cell to every row of the table body, whatever the kind of the row.
C1_CountsStayEqual ==
  last.called =>
    /\ Uniform(last.before) => Uniform(After)
    /\ HasHeadRow(last.before) =>
         /\ Len(HeadCells(After)) = Len(HeadCells(last.before)) + 1
         /\ Len(After.tbody) = Len(last.before.tbody)
         /\ \A i \in 1..Len(last.before.tbody) :
              Len(After.tbody[i]) = Len(last.before.tbody[i]) + 1

C1_Witness ==
  /\ last.called
  /\ Uniform(last.before)
  /\ Len(HeadCells(last.before)) = 2
  /\ Len(last.before.tbody) = 2
  /\ IsSectionHeader(last.before.tbody[1])
  /\ ~IsSectionHeader(last.before.tbody[2])
  /\ Uniform(After)
  /\ Len(HeadCells(After)) = 3

\* the targets main patches in a run: they exist and have a head row
Patched(t) == docStart[t].exists /\ HasHeadRow(docStart[t])

\* C2: after a complete run of main with a change-set of N plans, every target
\* that exists and has a head row of H cells and body rows of C cells has H+N
\* cells in the head row and C+N cells in each of those body rows.
C2_CompleteRunAddsN ==
  pc = "done" =>
    \A t \in Targets :
      Patched(t) =>
        /\ Len(HeadCells(doc[t])) = Len(HeadCells(docStart[t])) + NPlans
        /\ Len(doc[t].tbody) = Len(docStart[t].tbody)
        /\ \A i \in 1..Len(docStart[t].tbody) :
             Len(doc[t].tbody[i]) = Len(docStart[t].tbody[i]) + NPlans

C2_Witness ==
  /\ pc = "done"
  /\ run = 1
  /\ NPlans = 2
  /\ docStart[2] = FullDoc
  /\ Len(HeadCells(doc[2])) = 5
  /\ Len(doc[2].tbody[1]) = 5
  /\ Len(doc[2].tbody[2]) = 3

FirstCellHasColspan(row) == Len(row) > 0 /\ row[1].colspan

\* the first td of the row exists and carries a colspan attribute
FirstTdHasColspan(row) ==
  \E j \in 1..Len(row) :
    /\ row[j].tag = "td"
    /\ row[j].colspan
    /\ \A k \in 1..(j - 1) : row[k].tag # "td"

\* row `after` is row `before` with one more cell, whose content is `content`
GainsOne(before, after, content) ==
  /\ Len(after) = Len(before) + 1
  /\ SubSeq(after, 1, Len(before)) = before
  /\ after[Len(after)].tag = "td"
  /\ after[Len(after)].string = content

AllPairs == {<<k, t>> : k \in 1..NPlans, t \in {u \in Targets : doc[u].exists}}

\* C4: a second run with the same change-set of N plans appends the N columns
\* again: every patched document ends with H+2N header cells and C+2N cells
\* per body row, and the second run invokes the patcher for every plan on
\* every existing target, skipping none.
C4_SecondRunAppendsAgain ==
  (run = 2 /\ pc = "done") =>
    /\ calls = AllPairs
    /\ \A t \in Targets :
         (doc0[t].exists /\ HasHeadRow(doc0[t])) =>
           /\ Len(HeadCells(doc[t])) = Len(HeadCells(doc0[t])) + 2 * NPlans
           /\ Len(doc[t].tbody) = Len(doc0[t].tbody)
           /\ \A i \in 1..Len(doc0[t].tbody) :
                Len(doc[t].tbody[i]) = Len(doc0[t].tbody[i]) + 2 * NPlans
           /\ NPlans > 0 => doc[t] # docStart[t]

C4_Witness ==
  /\ run = 2
  /\ pc = "done"
  /\ NPlans = 2
  /\ doc0[1] = FullDoc
  /\ Len(HeadCells(doc[1])) = 7
  /\ Len(doc[1].tbody[1]) = 7
  /\ doc[1] # docStart[1]

\* the iterations of the two loops that are over
Visited ==
  {x \in (1..NPlans) \X Targets :
     \/ pc \in {"after_loop", "done"}
     \/ pc = "loop" /\ (x[1] < pi \/ (x[1] = pi /\ x[2] < ti))}

Notices(t) == {i \in 1..Len(log) : log[i] = Msg("not found, skipping", t)}

\* C5: a target that does not exist is skipped with a notice and never stops
\* the run: at every point of the loops the patcher has been invoked for every
\* iteration that is over and whose target exists, wherever the missing
\* targets are in the list, and the run ends normally.
C5_MissingTargetSkipped ==
  /\ pc \in {"loop", "after_loop", "done"} =>
       /\ calls = {x \in Visited : doc[x[2]].exists}
       /\ \A t \in Targets :
            ~doc[t].exists => Cardinality(Notices(t)) = Cardinality({x \in Visited : x[2] = t})
  /\ pc = "exited" => (calls = {} /\ (~changes.exists \/ ~changes.wellformed))
  /\ pc = "done" => exitCode = 0

C5_Witness ==
  /\ pc = "done"
  /\ NPlans = 2
  /\ ~doc[2].exists
  /\ doc[1].exists
  /\ doc[3].exists
  /\ calls = {<<1, 1>>, <<1, 3>>, <<2, 1>>, <<2, 3>>}
  /\ Cardinality(Notices(2)) = 2

Ended == pc \in {"done", "exited"}

\* C6 as stated: exit code 1 when the change-set file does not exist, exit
\* code 0 in every other case.
C6_ExitOneOnlyWhenMissing ==
  Ended => exitCode = (IF ~changes.exists THEN 1 ELSE 0)

\* C6 amended: exit code 1 when the change-set file does not exist or is not
\* JSON (the parse error is not caught), exit code 0 when main returns, the
\* case where there is nothing to do included.
C6_ExitCodes ==
  /\ Ended => exitCode = (IF ~changes.exists \/ ~changes.wellformed THEN 1 ELSE 0)
  /\ (Ended /\ changes.exists /\ changes.wellformed /\ NPlans = 0) =>
       (exitCode = 0 /\ doc = docStart)

C6_Witness ==
  /\ pc = "done"
  /\ changes.exists
  /\ changes.wellformed
  /\ NPlans = 0
  /\ exitCode = 0
  /\ \E i \in 1..Len(log) : log[i] = Msg("No plans to apply", 0)

Warned(t) ==
  \E i \in 1..Len(log) :
    log[i] \in {Msg("Warning: no <thead>", t), Msg("Warning: no header row", t)}

\* C7: invoked on a document without a table head, or whose table head holds
\* no row, the patcher logs a warning and returns without writing: the file is
\* unchanged; main goes on, so that a complete run has invoked the patcher on
\* every plan and every existing target.
C7_NoHeadNoChange ==
  /\ (last.called /\ ~HasHeadRow(last.before)) =>
       /\ After = last.before
       /\ ~last.wrote
       /\ writes[last.target] = last.writes_before
       /\ Warned(last.target)
       /\ pc \in {"loop", "after_loop", "done"}
  /\ \A t \in Targets :
       (docStart[t].exists /\ ~HasHeadRow(docStart[t])) =>
         /\ doc[t] = docStart[t]
         /\ pc = "done" => \A k \in 1..NPlans :
              \A u \in Targets : doc[u].exists => <<k, u>> \in calls

C7_Witness ==
  /\ pc = "done"
  /\ NPlans = 2
  /\ last.called
  /\ last.target = 3
  /\ docStart[1] = NoTheadDoc
  /\ docStart[2] = FullDoc
  /\ docStart[3] = NoHeadRowDoc
  /\ doc[1] = NoTheadDoc
  /\ doc[3] = NoHeadRowDoc
  /\ Len(HeadCells(doc[2])) = 5
  /\ writes[1] = 0
  /\ writes[3] = 0

\* C8: in every patched document the header cells appended during a run come
\* after the header cells that were there, left to right in the order of the
\* plans of the change-set: the k-th appended cell is the k-th plan's.
C8_ColumnsInPlanOrder ==
  pc = "done" =>
    \A t \in Targets :
      Patched(t) =>
        LET H == Len(HeadCells(docStart[t]))
        IN /\ Len(HeadCells(doc[t])) = H + NPlans
           /\ SubSeq(HeadCells(doc[t]), 1, H) = HeadCells(docStart[t])
           /\ \A k \in 1..NPlans :
                /\ HeadCells(doc[t])[H + k].h3 = plan_name(changes.plans[k])
                /\ HeadCells(doc[t])[H + k].data_monthly = str(plan_monthly(changes.plans[k]))

C8_Witness ==
  /\ pc = "done"
  /\ changes.plans = <<PlanUnnamed, PlanVIP>>
  /\ Patched(1)
  /\ Len(HeadCells(docStart[1])) = 3
  /\ HeadCells(doc[1])[4].h3 = NewPlanName
  /\ HeadCells(doc[1])[5].h3 = VIP

\* C9: the identifier make_header_th gives the price element is determined by
\* the plan's name and monthly price alone, over all invocations, those of two
\* separate runs included.
C9_IdDeterminedByPlan ==
  \A a, b \in ids : (a.name = b.name /\ a.monthly = b.monthly) => a.id = b.id

\* C10: invoked on a document with a head row but no table body, the patcher
\* logs a warning, appends the one new header cell and writes the document
\* back; no body row changes.
C10_NoBodyHeadStillPatched ==
  (last.called /\ HasHeadRow(last.before) /\ ~last.before.has_tbody) =>
    /\ Len(HeadCells(After)) = Len(HeadCells(last.before)) + 1
    /\ SubSeq(HeadCells(After), 1, Len(HeadCells(last.before))) = HeadCells(last.before)
    /\ HeadCells(After)[Len(HeadCells(After))].tag = "th"
    /\ HeadCells(After)[Len(HeadCells(After))].h3 = last.name
    /\ ~After.has_tbody
    /\ After.tbody = last.before.tbody
    /\ last.wrote
    /\ writes[last.target] = last.writes_before + 1
    /\ \E i \in 1..Len(log) : log[i] = Msg("Warning: no <tbody>", last.target)

C10_Witness ==
  /\ last.called
  /\ last.before = Document(TRUE, <<HeadRow(2)>>, FALSE, <<>>)
  /\ Len(HeadCells(After)) = 3
  /\ After.tbody = <<>>
  /\ writes[last.target] = 1

====
